---- MODULE Spec2Model ----
(***************************************************************************)
(* Model of the document question-answering service: the chunker          *)
(* (document_processor.py), the vector store with its memoized search     *)
(* (vector_store.py), the answer generator (qa_engine.py) and the HTTP    *)
(* request handlers (app.py).                                             *)
(*                                                                         *)
(* A text is a sequence of tokens: 0 is one whitespace character, a       *)
(* positive number is one word (a maximal run of non-whitespace).  A      *)
(* chunk text is the sequence of its words (' '.join is injective on      *)
(* whitespace-free words).                                                *)
(***************************************************************************)
EXTENDS Integers, Sequences, FiniteSets, TLC

\* ------------------------------------------------------------------ bounds
\* longest text given to split_text_into_chunks in the chunker specification
MaxTextLen == 7
\* largest chunk_size / overlap given to split_text_into_chunks there
MaxChunkSize == 4
MaxOverlap == 4
\* failures of the index (count, add, query, delete, create) and of the remote
\* completion service in one behaviour
MaxFaults == 1

\* ------------------------------------------------------- program constants
\* split_text_into_chunks(self, text, chunk_size=1000, overlap=200)
DefaultChunkSize == 1000
DefaultOverlap == 200
\* add_documents: batch_size = 100
BatchSize == 100
\* @lru_cache(maxsize=100) on VectorStore.search
CacheMaxSize == 100
\* ask_question: vector_store.search(question.text, n_results=3)
AskNResults == 3
\* main: vector_store.search(question, n_results=5)
MainNResults == 5
\* prepare_context: max_chunks = 2 and the 1000-character limit of a chunk
MaxContextChunks == 2
MaxChunkChars == 1000

VARIABLES
    folder,        \* the documents folder on disk (the name of its state)
    folder_states, \* the states the folder moves among in this behaviour
    vector_store,  \* the VectorStore object and the chromadb client behind it
    update_pc,     \* where update_documents is: "idle", or "cleared" between
                   \* the return of clear() and process_documents(); for the
                   \* command-line program, where main is: "main_start",
                   \* "main_loop" (at its input prompt) or "main_exit"
    last,          \* what the last finished handler did and answered, while
                   \* the folder is as that handler saw it (NoOp otherwise)
    faults,        \* failures of the index and the remote service so far
    text,        \* chunker specification: the text argument
    chunk_size,  \* chunker specification: the chunk_size argument
    overlap,     \* chunker specification: the overlap argument
    split        \* chunker specification: the call's outcome, or NotCalled

chunkVars == <<text, chunk_size, overlap, split>>
serviceVars == <<folder, folder_states, vector_store, update_pc, last, faults>>
vars == <<folder, folder_states, vector_store, update_pc, last, faults,
          text, chunk_size, overlap, split>>

\* ------------------------------------------------------------------ helpers
Min(a, b) == IF a < b THEN a ELSE b
Max(a, b) == IF a > b THEN a ELSE b

\* ceil(a / b) for a >= 0, b > 0
CeilDiv(a, b) == (a + b - 1) \div b

\* Python's s[a:b] for 0 <= a and 0 <= b (the slice is clamped to the list)
Slice(s, a, b) == SubSeq(s, a + 1, Min(b, Len(s)))

\* Python's range(start, stop, step) for step # 0, as the sequence it yields
\* (its length is Python's: ceil((stop - start) / step) when that is positive)
Range(start, stop, step) ==
    IF step > 0 /\ start < stop
    THEN [k \in 1..CeilDiv(stop - start, step) |-> start + (k - 1) * step]
    ELSE IF step < 0 /\ start > stop
    THEN [k \in 1..CeilDiv(start - stop, 0 - step) |-> start + (k - 1) * step]
    ELSE <<>>

\* ------------------------------------------------------------------ chunker
IsSpace(tok) == tok = 0

\* str.strip(): leading and trailing whitespace removed
RECURSIVE LStrip(_)
LStrip(t) == IF t # <<>> /\ IsSpace(Head(t)) THEN LStrip(Tail(t)) ELSE t
RECURSIVE RStrip(_)
RStrip(t) ==
    IF t # <<>> /\ IsSpace(t[Len(t)]) THEN RStrip(SubSeq(t, 1, Len(t) - 1)) ELSE t
Strip(t) == RStrip(LStrip(t))

\* str.split(): the words, in order, whitespace runs dropped
WordsOf(t) == SelectSeq(t, LAMBDA tok : ~IsSpace(tok))

\* the loop body of split_text_into_chunks over the indices range() yields
RECURSIVE WindowChunks(_, _, _)
WindowChunks(words, idxs, c) ==
    IF idxs = <<>> THEN <<>>
    ELSE LET chunk == Slice(words, Head(idxs), Head(idxs) + c)
         IN  (IF chunk # <<>> THEN <<chunk>> ELSE <<>>)
             \o WindowChunks(words, Tail(idxs), c)

\* split_text_into_chunks with a zero stride accepted as a stride of one
SplitTextIntoChunksZeroStride(t, c, o) ==
    IF Strip(t) = <<>> THEN [status |-> "returned", chunks |-> <<>>, visited |-> <<>>]
    ELSE LET words == WordsOf(t)
             idxs == Range(0, Len(words), IF c - o = 0 THEN 1 ELSE c - o)
         IN  [status |-> "returned", chunks |-> WindowChunks(words, idxs, c),
              visited |-> idxs]

\* split_text_into_chunks striding by chunk_size (the overlap forgotten)
SplitTextIntoChunksNoOverlap(t, c, o) ==
    IF Strip(t) = <<>> THEN [status |-> "returned", chunks |-> <<>>, visited |-> <<>>]
    ELSE LET words == WordsOf(t)
         IN  IF c - o = 0
             THEN [status |-> "raised", chunks |-> <<>>, visited |-> <<>>]
             ELSE LET idxs == Range(0, Len(words), c)
                  IN  [status |-> "returned", chunks |-> WindowChunks(words, idxs, c),
                       visited |-> idxs]

\* DocumentProcessor.split_text_into_chunks: "returned" with the chunk list, or
\* "raised" (range() raises ValueError when its step is zero).  visited is the
\* sequence of window start indices the loop walked.
SplitTextIntoChunks(t, c, o) ==
    IF Strip(t) = <<>> THEN [status |-> "returned", chunks |-> <<>>, visited |-> <<>>]
    ELSE LET words == WordsOf(t)
         IN  IF c - o = 0
             THEN [status |-> "raised", chunks |-> <<>>, visited |-> <<>>]
             ELSE LET idxs == Range(0, Len(words), c - o)
                  IN  [status |-> "returned", chunks |-> WindowChunks(words, idxs, c),
                       visited |-> idxs]

\* ------------------------------------------------------------ the documents
\* A file of the document folder: its name (dot: the name starts with '.'),
\* its suffix, whether reading / PDF extraction succeeds, and its content: the
\* text of a plain file, or the page texts of a PDF.
TextExtensions ==
    {".txt", ".md", ".py", ".js", ".html", ".css", ".json", ".csv", ".xml",
     ".yaml", ".yml"}

\* DocumentProcessor.is_text_file
IsTextFile(f) ==
    IF f.dot \/ f.name = "DS_Store" THEN FALSE ELSE f.suffix \in TextExtensions

\* DocumentProcessor.is_pdf_file
IsPdfFile(f) == f.suffix = ".pdf"

\* the words "Page" and "<n>:" of the header extract_text_from_pdf writes
PageWord == 900
PageNumberWord(n) == 900 + n

\* DocumentProcessor.extract_text_from_pdf: "\nPage i+1:\n" and the page text
\* for every page whose text is not blank; "" when the reader raises
RECURSIVE PdfPagesText(_, _)
PdfPagesText(pages, i) ==
    IF i > Len(pages) THEN <<>>
    ELSE (IF Strip(pages[i]) # <<>>
          THEN <<0, PageWord, 0, PageNumberWord(i), 0>> \o pages[i]
          ELSE <<>>)
         \o PdfPagesText(pages, i + 1)

ExtractTextFromPdf(f) == IF f.readable THEN PdfPagesText(f.pages, 1) ELSE <<>>

\* the content process_documents obtains for one file ("" when unreadable or
\* of no recognised kind)
FileContent(f) ==
    IF IsTextFile(f) THEN (IF f.readable THEN f.content ELSE <<>>)
    ELSE IF IsPdfFile(f) THEN ExtractTextFromPdf(f)
    ELSE <<>>

\* the (chunk, metadata) pairs process_documents appends for one file
FileChunks(f) ==
    LET content == FileContent(f)
        chunks == IF content # <<>>
                  THEN SplitTextIntoChunks(content, DefaultChunkSize, DefaultOverlap).chunks
                  ELSE <<>>
    IN  [i \in 1..Len(chunks) |->
            [document |-> chunks[i],
             metadata |-> [filename |-> f.name, chunk_index |-> i - 1,
                           total_chunks |-> Len(chunks)]]]

\* the pairs of files lo..hi, in order (halving keeps the evaluation shallow)
RECURSIVE ChunksOfFiles(_, _, _)
ChunksOfFiles(files, lo, hi) ==
    IF lo > hi THEN <<>>
    ELSE IF lo = hi THEN FileChunks(files[lo])
    ELSE LET mid == (lo + hi) \div 2
         IN  ChunksOfFiles(files, lo, mid) \o ChunksOfFiles(files, mid + 1, hi)

AllFileChunks(files) == ChunksOfFiles(files, 1, Len(files))

\* DocumentProcessor.process_documents: raises FileNotFoundError when the folder
\* is missing, else the chunks with their metadata (the two parallel lists, as
\* one list of pairs) in file discovery order
ProcessDocuments(f) ==
    IF ~f.exists THEN [raised |-> TRUE, chunks |-> <<>>]
    ELSE [raised |-> FALSE, chunks |-> AllFileChunks(f.files)]

File(name, suffix, dot, readable, content, pages) ==
    [name |-> name, suffix |-> suffix, dot |-> dot, readable |-> readable,
     content |-> content, pages |-> pages]

FolderMissing == [exists |-> FALSE, files |-> <<>>]
FolderEmpty == [exists |-> TRUE, files |-> <<>>]
\* two text files, a PDF with a blank page, and files that contribute nothing
FolderSmall ==
    [exists |-> TRUE,
     files |-> << File("notes.txt", ".txt", FALSE, TRUE, <<1, 0, 2, 0, 0, 3>>, <<>>),
                  File(".env", "", TRUE, TRUE, <<7>>, <<>>),
                  File("cv.pdf", ".pdf", FALSE, TRUE, <<>>, << <<4, 0, 5>>, <<0>> >>),
                  File("blank.md", ".md", FALSE, TRUE, <<0, 0>>, <<>>),
                  File("photo.png", ".png", FALSE, TRUE, <<8>>, <<>>),
                  File("broken.pdf", ".pdf", FALSE, FALSE, <<>>, << <<9>> >>) >>]
\* the same folder after an edit of notes.txt
FolderEdited ==
    [exists |-> TRUE,
     files |-> << File("notes.txt", ".txt", FALSE, TRUE, <<6, 0, 2>>, <<>>),
                  File("cv.pdf", ".pdf", FALSE, TRUE, <<>>, << <<4, 0, 5>>, <<0>> >>) >>]
\* a folder of more chunks than one add_documents batch holds
FolderBig ==
    [exists |-> TRUE,
     files |-> [i \in 1..(BatchSize + 1) |->
                  File("doc.txt", ".txt", FALSE, TRUE, <<100 + i>>, <<>>)]]

\* the states of the folder on disk, by name
Folders == {"missing", "empty", "small", "edited", "big"}
Disk(name) ==
    CASE name = "missing" -> FolderMissing
      [] name = "empty" -> FolderEmpty
      [] name = "small" -> FolderSmall
      [] name = "edited" -> FolderEdited
      [] name = "big" -> FolderBig
\* the folders of at most one batch, and those that exercise the batching
PlainFolders == {"missing", "empty", "small", "edited"}
BatchFolders == {"missing", "empty", "big"}
CacheFolders == {"small"}
ProgramFolders == {"missing", "empty", "small"}

\* process_documents() on each state of the folder, worked out once
ProcessedFolders == [name \in Folders |-> ProcessDocuments(Disk(name))]
Processed(name) == ProcessedFolders[name]

\* --------------------------------------------------------- the vector store
\* A VectorStore object v:
\*   client           the collections of the chromadb client, by name; a name is
\*                    the number of "_<uuid>" suffixes appended to "documents"
\*   collection_name  self.collection_name
\*   collection       the name of the collection self.collection refers to (a
\*                    deleted collection when that name is not in client)
\*   cache            the lru_cache of search: <<key, value>> entries, least
\*                    recently used first
NewVectorStore ==
    [client |-> (0 :> <<>>), collection_name |-> 0, collection |-> 0,
     cache |-> <<>>]

\* self.collection refers to a collection the client no longer holds
Dangling(v) == v.collection \notin DOMAIN v.client

\* the documents of self.collection
Contents(v) == IF Dangling(v) THEN <<>> ELSE v.client[v.collection]

\* is_empty that trusts a failed count: reports "not empty" on an error
IsEmptyOptimistic(v, countFault) ==
    IF countFault \/ Dangling(v) THEN FALSE ELSE Len(v.client[v.collection]) = 0

\* is_empty that reports True whatever the count
IsEmptyAlways(v, countFault) == TRUE

\* VectorStore.is_empty: count == 0, and True when collection.count() raises
\* (countFault: the count query fails; it also fails on a deleted collection)
IsEmpty(v, countFault) ==
    IF countFault \/ Dangling(v) THEN TRUE ELSE Len(v.client[v.collection]) = 0

\* add_documents whose loop goes on after a failed collection.add
BatchesAddedDespiteFailure(v, docs, failAt) ==
    LET n == Len(Range(0, Len(docs), BatchSize))
    IN  [done |-> n, raised |-> failAt # 0 - 1 \/ (Dangling(v) /\ n >= 1)]

\* the number of batches add_documents completes: all of them when nothing
\* fails; none when encode raises (failAt = 0); k - 1 when the k-th
\* collection.add raises (every add raises on a deleted collection)
BatchesAdded(v, docs, failAt) ==
    LET n == Len(Range(0, Len(docs), BatchSize))
        bad == IF failAt = 0 THEN 0
               ELSE IF Dangling(v) THEN 1
               ELSE failAt
    IN  IF bad = -1 \/ bad > n THEN [done |-> n, raised |-> FALSE]
        ELSE [done |-> Max(bad - 1, 0), raised |-> TRUE]

\* VectorStore.add_documents: the documents appended batch by batch to
\* self.collection (ids are fresh uuids, never read back); a failure is logged
\* and raised again, the batches already added staying in the collection
AddDocuments(v, docs, failAt) ==
    LET b == BatchesAdded(v, docs, failAt)
        added == Slice(docs, 0, b.done * BatchSize)
    IN  [vs |-> IF Dangling(v) THEN v
                ELSE [v EXCEPT !.client[v.collection] = @ \o added],
         raised |-> b.raised]

\* similarity of a query and a chunk, standing for the embedding distance
Distance(q, doc) ==
    LET d == q - Head(doc.document) IN IF d < 0 THEN 0 - d ELSE d

\* the index of the chunk of coll nearest to q, the first one among equals
ArgNearest(coll, q) ==
    CHOOSE i \in 1..Len(coll) :
        \A j \in 1..Len(coll) :
            \/ Distance(q, coll[i]) < Distance(q, coll[j])
            \/ Distance(q, coll[i]) = Distance(q, coll[j]) /\ i <= j

\* collection.query: the n nearest chunks, nearest first
RECURSIVE Nearest(_, _, _)
Nearest(coll, q, n) ==
    IF n = 0 \/ coll = <<>> THEN <<>>
    ELSE LET b == ArgNearest(coll, q)
         IN  <<coll[b]>>
             \o Nearest(SubSeq(coll, 1, b - 1) \o SubSeq(coll, b + 1, Len(coll)), q, n - 1)

\* a search result: results['documents'][0] and results['metadatas'][0]
QueryResult(hits) ==
    [documents |-> [i \in 1..Len(hits) |-> hits[i].document],
     metadatas |-> [i \in 1..Len(hits) |-> hits[i].metadata]]

\* {"documents": [[]], "metadatas": [[]]}
EmptyResult == [documents |-> <<>>, metadatas |-> <<>>]

CacheIndex(cache, key) ==
    IF \E i \in 1..Len(cache) : cache[i][1] = key
    THEN CHOOSE i \in 1..Len(cache) : cache[i][1] = key
    ELSE 0

\* what the body of search returns: the query's result, or the degraded empty
\* result when encoding or collection.query raises
SearchBody(v, q, n, queryFault) ==
    IF queryFault \/ Dangling(v) THEN EmptyResult
    ELSE QueryResult(Nearest(v.client[v.collection], q, n))

\* search that memoizes only the results of queries that did not fail
SearchForgetsFailure(v, q, n, queryFault) ==
    LET key == <<q, n>>
        i == CacheIndex(v.cache, key)
    IN  IF i # 0
        THEN [vs |-> [v EXCEPT !.cache = SubSeq(@, 1, i - 1) \o SubSeq(@, i + 1, Len(@))
                                             \o <<v.cache[i]>>],
              result |-> v.cache[i][2], hit |-> TRUE, raised |-> FALSE]
        ELSE LET r == SearchBody(v, q, n, queryFault)
                 grown == v.cache \o << <<key, r>> >>
             IN  [vs |-> IF queryFault \/ Dangling(v) THEN v
                         ELSE [v EXCEPT !.cache = IF Len(grown) > CacheMaxSize
                                                  THEN Tail(grown) ELSE grown],
                  result |-> r, hit |-> FALSE,
                  raised |-> queryFault \/ Dangling(v)]

\* VectorStore.search under @lru_cache(maxsize=100): a memoized (query, n) is
\* returned without running the body and becomes the most recently used entry;
\* otherwise the body's result is stored, the least recently used entry being
\* evicted when the cache is full (raised: the body ran and caught an exception)
Search(v, q, n, queryFault) ==
    LET key == <<q, n>>
        i == CacheIndex(v.cache, key)
    IN  IF i # 0
        THEN [vs |-> [v EXCEPT !.cache = SubSeq(@, 1, i - 1) \o SubSeq(@, i + 1, Len(@))
                                             \o <<v.cache[i]>>],
              result |-> v.cache[i][2], hit |-> TRUE, raised |-> FALSE]
        ELSE LET r == SearchBody(v, q, n, queryFault)
                 grown == v.cache \o << <<key, r>> >>
             IN  [vs |-> [v EXCEPT !.cache = IF Len(grown) > CacheMaxSize
                                              THEN Tail(grown) ELSE grown],
                  result |-> r, hit |-> FALSE,
                  raised |-> queryFault \/ Dangling(v)]

\* clear whose fallback keeps using the old collection object
ClearKeepsOld(v, deleteFault, createFault, fallbackFault) ==
    IF deleteFault \/ v.collection_name \notin DOMAIN v.client
    THEN [vs |-> [v EXCEPT !.collection_name = @ + 1], raised |-> FALSE,
          path |-> "fallback"]
    ELSE [vs |-> [v EXCEPT !.client = [@ EXCEPT ![v.collection_name] = <<>>],
                           !.collection = v.collection_name,
                           !.cache = <<>>],
          raised |-> FALSE, path |-> "normal"]

\* VectorStore.clear.  Normal path: the collection is deleted, created again
\* empty, and the search cache cleared.  When delete_collection raises
\* (deleteFault, or no collection of that name) or the create after it raises
\* (createFault), the except branch renames the store and creates a collection
\* under the new name, without touching the cache; when that create raises too
\* (fallbackFault) the exception leaves clear.
Clear(v, deleteFault, createFault, fallbackFault) ==
    LET deleted == ~deleteFault /\ v.collection_name \in DOMAIN v.client
        client1 == IF deleted
                   THEN [n \in DOMAIN v.client \ {v.collection_name} |-> v.client[n]]
                   ELSE v.client
        newName == v.collection_name + 1
    IN  IF deleted /\ ~createFault
        THEN [vs |-> [v EXCEPT !.client = client1 @@ (v.collection_name :> <<>>),
                               !.collection = v.collection_name,
                               !.cache = <<>>],
              raised |-> FALSE, path |-> "normal"]
        ELSE IF ~fallbackFault
        THEN [vs |-> [v EXCEPT !.client = client1 @@ (newName :> <<>>),
                               !.collection_name = newName,
                               !.collection = newName],
              raised |-> FALSE, path |-> "fallback"]
        ELSE [vs |-> [v EXCEPT !.client = client1,
                               !.collection_name = newName],
              raised |-> TRUE, path |-> "raised"]

\* ------------------------------------------------------------- the QA engine
\* len(chunk): the characters of a chunk text, every word one character long
\* and the words joined by single spaces
CharLen(doc) == IF doc = <<>> THEN 0 ELSE 2 * Len(doc) - 1

\* chunk[:1000] + "..." (the word 0 - 1 stands for the "..." mark)
Truncate(doc) ==
    IF CharLen(doc) > MaxChunkChars
    THEN SubSeq(doc, 1, MaxChunkChars \div 2) \o <<0 - 1>>
    ELSE doc

\* QAEngine.prepare_context: "" (the empty sequence) when the search returned
\* no chunk, else one part per chunk for the first max_chunks chunks
PrepareContext(search_results) ==
    IF search_results.documents = <<>> THEN <<>>
    ELSE [i \in 1..Min(Len(search_results.documents), MaxContextChunks) |->
             [filename |-> search_results.metadatas[i].filename,
              part |-> search_results.metadatas[i].chunk_index + 1,
              total |-> search_results.metadatas[i].total_chunks,
              chunk |-> Truncate(search_results.documents[i])]]

\* get_answer without the empty-context return
GetAnswerAlwaysCalls(context, remote) ==
    [answer |-> CASE remote = "ok" -> "reply"
                  [] remote = "timeout" -> "took_too_long"
                  [] OTHER -> "error_getting_answer",
     called |-> TRUE]

\* QAEngine.get_answer: the fixed message and no remote call on an empty
\* context; else one ChatCompletion call, whose reply, timeout or other
\* failure (remote) each become the returned string
GetAnswer(context, remote) ==
    IF context = <<>>
    THEN [answer |-> "no_relevant_information", called |-> FALSE]
    ELSE [answer |-> CASE remote = "ok" -> "reply"
                       [] remote = "timeout" -> "took_too_long"
                       [] OTHER -> "error_getting_answer",
          called |-> TRUE]

Remotes == {"ok", "timeout", "error"}

\* ---------------------------------------------------- chunker specification
NotCalled == [status |-> "not_called", chunks |-> <<>>, visited |-> <<>>]

\* the text whose token i is whitespace where bits[i] = 0 and otherwise the
\* next word, words numbered 1, 2, ... in order of appearance
TextOfBits(bits) ==
    [i \in 1..Len(bits) |->
        IF bits[i] = 0 THEN 0
        ELSE Cardinality({j \in 1..i : bits[j] = 1})]

Texts ==
    UNION {{TextOfBits(b) : b \in [1..n -> {0, 1}]} : n \in 0..MaxTextLen}

\* ------------------------------------------------------ the request handlers
\* What a finished handler did and answered (op = "none": none finished yet).
\* status is the HTTP status; detail the exception that ended the handler body
\* or, for warmup, the "status" field of its reply.
NoOp ==
    [op |-> "none", status |-> 0, detail |-> "none",
     is_empty |-> FALSE, count_raised |-> FALSE, pre_count |-> 0,
     processed |-> FALSE, nchunks |-> 0 - 1, added |-> FALSE,
     searched |-> FALSE, hit |-> FALSE, query_raised |-> FALSE,
     results |-> EmptyResult,
     context |-> <<>>, answer |-> "none", remote_called |-> FALSE,
     prev_update |-> 0 - 1]

\* the first exception of the ingest a handler runs when is_empty() is True
\* (stopOnNone: ask_question raises HTTPException(404) when there is no chunk)
IngestException(pd, add, stopOnNone) ==
    IF pd.raised THEN "FileNotFoundError"
    ELSE IF stopOnNone /\ pd.chunks = <<>> THEN "HTTPException404"
    ELSE IF add.raised THEN "add_documents"
    ELSE "none"

\* ask_question's "except Exception as e: raise HTTPException(500, str(e))":
\* every exception of the body, the HTTPException(404) included, becomes 500
AskStatus(exc) == IF exc = "none" THEN 200 ELSE 500

\* ask_question (POST /ask) on store v and folder f, for question q
AskQuestion(v, f, q, countFault, failAt, queryFault, remote) ==
    LET empty == IsEmpty(v, countFault)
        pd == Processed(f)
        add == AddDocuments(v, pd.chunks, failAt)
        exc == IF empty THEN IngestException(pd, add, TRUE) ELSE "none"
        addCalled == empty /\ ~pd.raised /\ pd.chunks # <<>>
        v1 == IF addCalled THEN add.vs ELSE v
        sr == Search(v1, q, AskNResults, queryFault)
        context == PrepareContext(sr.result)
        ans == GetAnswer(context, remote)
        base == [NoOp EXCEPT !.op = "ask", !.status = AskStatus(exc),
                             !.detail = exc, !.is_empty = empty,
                             !.count_raised = countFault \/ Dangling(v),
                             !.pre_count = Len(Contents(v)),
                             !.processed = empty,
                             !.nchunks = IF empty /\ ~pd.raised
                                         THEN Len(pd.chunks) ELSE 0 - 1,
                             !.added = addCalled /\ ~add.raised]
    IN  IF exc # "none"
        THEN [vs |-> v1, add_called |-> addCalled, resp |-> base]
        ELSE [vs |-> sr.vs, add_called |-> addCalled,
              resp |-> [base EXCEPT !.searched = TRUE, !.hit = sr.hit,
                                    !.query_raised = sr.raised,
                                    !.results = sr.result, !.context = context,
                                    !.answer = ans.answer,
                                    !.remote_called = ans.called]]

\* the questions qs[lo..hi] put to ask_question one request after the other,
\* nothing failing: the store after the last request, and its response
RECURSIVE AskAll(_, _, _, _, _)
AskAll(v, f, qs, lo, hi) ==
    IF lo = hi
    THEN LET r == AskQuestion(v, f, qs[lo], FALSE, 0 - 1, FALSE, "ok")
         IN  [vs |-> r.vs, resp |-> r.resp]
    ELSE LET mid == (lo + hi) \div 2
             a == AskAll(v, f, qs, lo, mid)
         IN  IF a.resp.op = "ask" THEN AskAll(a.vs, f, qs, mid + 1, hi) ELSE a

\* warmup (GET /warmup): always answers 200; detail is the reply's status
WarmupHandler(v, f, countFault, failAt, secondCountFault) ==
    LET empty == IsEmpty(v, countFault)
        pd == Processed(f)
        add == AddDocuments(v, pd.chunks, failAt)
        addCalled == empty /\ ~pd.raised /\ pd.chunks # <<>>
        exc == IF empty THEN IngestException(pd, add, FALSE)
               ELSE IF secondCountFault THEN "count" ELSE "none"
        base == [NoOp EXCEPT !.op = "warmup", !.status = 200,
                             !.is_empty = empty,
                             !.count_raised = countFault \/ Dangling(v),
                             !.pre_count = Len(Contents(v)),
                             !.processed = empty,
                             !.nchunks = IF empty /\ ~pd.raised
                                         THEN Len(pd.chunks) ELSE 0 - 1,
                             !.added = addCalled /\ ~add.raised]
    IN  [vs |-> IF addCalled THEN add.vs ELSE v, add_called |-> addCalled,
         resp |-> [base EXCEPT !.detail =
                      IF exc # "none" THEN "error"
                      ELSE IF ~empty THEN "already_ready"
                      ELSE IF pd.chunks # <<>> THEN "warmup_complete"
                      ELSE "no_documents"]]

\* update_documents (POST /update) after clear() returned: process_documents,
\* then add_documents; prev is what the handler before this update did, over
\* the same folder
UpdateIngestHandler(v, f, failAt, prev) ==
    LET pd == Processed(f)
        add == AddDocuments(v, pd.chunks, failAt)
        exc == IngestException(pd, add, FALSE)
    IN  [vs |-> IF pd.raised THEN v ELSE add.vs, add_called |-> ~pd.raised,
         resp |-> [NoOp EXCEPT !.op = "update",
                               !.status = IF exc = "none" THEN 200 ELSE 500,
                               !.detail = exc, !.processed = TRUE,
                               !.nchunks = IF pd.raised THEN 0 - 1 ELSE Len(pd.chunks),
                               !.added = ~pd.raised /\ ~add.raised,
                               !.prev_update =
                                   IF prev.op = "update" /\ prev.status = 200
                                   THEN prev.nchunks ELSE 0 - 1]]

\* --------------------------------------------- the command-line program
\* main before its loop: ingest when is_empty() is True; main returns when
\* there is no chunk, and ends in its "except Exception" when a call raises
MainStartup(v, f, countFault, failAt) ==
    LET empty == IsEmpty(v, countFault)
        pd == Processed(f)
        add == AddDocuments(v, pd.chunks, failAt)
        addCalled == empty /\ ~pd.raised /\ pd.chunks # <<>>
        exc == IF empty THEN IngestException(pd, add, FALSE) ELSE "none"
        detail == IF exc # "none" THEN exc
                  ELSE IF empty /\ pd.chunks = <<>> THEN "no_documents"
                  ELSE "none"
    IN  [vs |-> IF addCalled THEN add.vs ELSE v, add_called |-> addCalled,
         exit |-> detail # "none",
         resp |-> [NoOp EXCEPT !.op = "main_start", !.detail = detail,
                               !.is_empty = empty,
                               !.count_raised = countFault \/ Dangling(v),
                               !.pre_count = Len(Contents(v)),
                               !.processed = empty,
                               !.nchunks = IF empty /\ ~pd.raised
                                           THEN Len(pd.chunks) ELSE 0 - 1,
                               !.added = addCalled /\ ~add.raised]]

\* the 'update' command of main's loop: clear(), process_documents(),
\* add_documents(); the first call that raises ends the program
MainUpdate(v, f, deleteFault, createFault, fallbackFault, failAt) ==
    LET c == Clear(v, deleteFault, createFault, fallbackFault)
        pd == Processed(f)
        add == AddDocuments(c.vs, pd.chunks, failAt)
        exc == IF c.raised THEN "clear" ELSE IngestException(pd, add, FALSE)
    IN  [vs |-> IF c.raised \/ pd.raised THEN c.vs ELSE add.vs,
         add_called |-> ~c.raised /\ ~pd.raised,
         path |-> c.path,
         exit |-> exc # "none",
         resp |-> [NoOp EXCEPT !.op = "main_update", !.detail = exc,
                               !.pre_count = Len(Contents(v)),
                               !.processed = ~c.raised,
                               !.nchunks = IF c.raised \/ pd.raised THEN 0 - 1
                                           ELSE Len(pd.chunks),
                               !.added = ~c.raised /\ ~pd.raised /\ ~add.raised]]

\* the "Project Information" lines main appends to the context when the
\* question holds the word "project"
ProjectInformation ==
    <<[filename |-> "projects.json", part |-> 0, total |-> 0, chunk |-> <<>>]>>

\* a question put to main's loop: search with n_results=5, prepare_context,
\* the project lines when asked for (project), get_answer; no ingest
MainQuestion(v, q, project, queryFault, remote) ==
    LET sr == Search(v, q, MainNResults, queryFault)
        found == PrepareContext(sr.result)
        context == IF project THEN found \o ProjectInformation ELSE found
        ans == GetAnswer(context, remote)
    IN  [vs |-> sr.vs,
         resp |-> [NoOp EXCEPT !.op = "main_question",
                               !.pre_count = Len(Contents(v)),
                               !.searched = TRUE, !.hit = sr.hit,
                               !.query_raised = sr.raised,
                               !.results = sr.result, !.context = context,
                               !.answer = ans.answer,
                               !.remote_called = ans.called]]

\* ------------------------------------------------------------ the service
B(b) == IF b THEN 1 ELSE 0
Queries == {1, 5}
BurstQuestions == [i \in 1..CacheMaxSize |-> 10 + i]
FailPoints(docs) == {0 - 1} \cup 0..Len(Range(0, Len(docs), BatchSize))

\* The handlers are "async def" coroutines without an await in their bodies:
\* the event loop runs each to its end before it starts another.
LoopFreeThreaded == TRUE
LoopFree == update_pc = "idle"

\* the components get_components builds (an API key is configured, so QAEngine
\* constructs), over a folder in one of the given states
InitService(states) ==
    /\ folder_states = states
    /\ folder \in states
    /\ vector_store = NewVectorStore
    /\ update_pc = "idle"
    /\ last = NoOp
    /\ faults = 0

\* the documents folder is changed on disk
EditFolder ==
    /\ \E f \in folder_states \ {folder} : folder' = f
    /\ last' = NoOp
    /\ UNCHANGED <<folder_states, vector_store, update_pc, faults>>
    /\ UNCHANGED chunkVars

Ask ==
    /\ LoopFree
    /\ \E q \in Queries, countFault, queryFault \in BOOLEAN, remote \in Remotes,
          failAt \in FailPoints(Processed(folder).chunks) :
          LET r == AskQuestion(vector_store, folder, q, countFault, failAt,
                               queryFault, remote)
          IN  /\ failAt # 0 - 1 => r.add_called
              /\ queryFault => r.resp.searched /\ ~r.resp.hit
              /\ remote # "ok" => r.resp.remote_called
              /\ faults + B(countFault) + B(failAt # 0 - 1) + B(queryFault)
                        + B(remote # "ok") <= MaxFaults
              /\ faults' = faults + B(countFault) + B(failAt # 0 - 1)
                                  + B(queryFault) + B(remote # "ok")
              /\ vector_store' = r.vs
              /\ last' = r.resp
    /\ UNCHANGED <<folder, folder_states, update_pc>>
    /\ UNCHANGED chunkVars

Warmup ==
    /\ LoopFree
    /\ \E countFault, secondCountFault \in BOOLEAN,
          failAt \in FailPoints(Processed(folder).chunks) :
          LET r == WarmupHandler(vector_store, folder, countFault, failAt,
                                 secondCountFault)
          IN  /\ failAt # 0 - 1 => r.add_called
              /\ secondCountFault => ~r.resp.is_empty
              /\ faults + B(countFault) + B(failAt # 0 - 1) + B(secondCountFault)
                    <= MaxFaults
              /\ faults' = faults + B(countFault) + B(failAt # 0 - 1)
                                  + B(secondCountFault)
              /\ vector_store' = r.vs
              /\ last' = r.resp
    /\ UNCHANGED <<folder, folder_states, update_pc>>
    /\ UNCHANGED chunkVars

\* update_documents up to the return of vector_store.clear()
UpdateClear ==
    /\ LoopFree
    /\ \E deleteFault, createFault, fallbackFault \in BOOLEAN :
          LET r == Clear(vector_store, deleteFault, createFault, fallbackFault)
          IN  /\ createFault => ~deleteFault
              /\ fallbackFault => r.path = "raised"
              /\ faults + B(deleteFault) + B(createFault) + B(fallbackFault)
                    <= MaxFaults
              /\ faults' = faults + B(deleteFault) + B(createFault)
                                  + B(fallbackFault)
              /\ vector_store' = r.vs
              /\ IF r.raised
                 THEN /\ update_pc' = "idle"
                      /\ last' = [NoOp EXCEPT !.op = "update", !.status = 500,
                                              !.detail = "clear"]
                 ELSE /\ update_pc' = "cleared"
                      /\ UNCHANGED last
    /\ UNCHANGED <<folder, folder_states>>
    /\ UNCHANGED chunkVars

\* update_documents from process_documents() to its response
UpdateIngest ==
    /\ update_pc = "cleared"
    /\ \E failAt \in FailPoints(Processed(folder).chunks) :
          LET r == UpdateIngestHandler(vector_store, folder, failAt, last)
          IN  /\ failAt # 0 - 1 => r.add_called
              /\ faults + B(failAt # 0 - 1) <= MaxFaults
              /\ faults' = faults + B(failAt # 0 - 1)
              /\ vector_store' = r.vs
              /\ last' = r.resp
    /\ update_pc' = "idle"
    /\ UNCHANGED <<folder, folder_states>>
    /\ UNCHANGED chunkVars

\* a client puts CacheMaxSize further questions, all different, one POST /ask
\* after the other
AskBurst ==
    /\ LoopFree
    /\ LET r == AskAll(vector_store, folder, BurstQuestions, 1, Len(BurstQuestions))
       IN  /\ vector_store' = r.vs
           /\ last' = r.resp
    /\ UNCHANGED <<folder, folder_states, update_pc, faults>>
    /\ UNCHANGED chunkVars

\* main up to its first input prompt
MainStart ==
    /\ update_pc = "main_start"
    /\ \E countFault \in BOOLEAN, failAt \in FailPoints(Processed(folder).chunks) :
          LET r == MainStartup(vector_store, folder, countFault, failAt)
          IN  /\ failAt # 0 - 1 => r.add_called
              /\ faults + B(countFault) + B(failAt # 0 - 1) <= MaxFaults
              /\ faults' = faults + B(countFault) + B(failAt # 0 - 1)
              /\ vector_store' = r.vs
              /\ last' = r.resp
              /\ update_pc' = IF r.exit THEN "main_exit" ELSE "main_loop"
    /\ UNCHANGED <<folder, folder_states>>
    /\ UNCHANGED chunkVars

\* one turn of main's loop on the input 'update'
MainLoopUpdate ==
    /\ update_pc = "main_loop"
    /\ \E deleteFault, createFault, fallbackFault \in BOOLEAN,
          failAt \in FailPoints(Processed(folder).chunks) :
          LET r == MainUpdate(vector_store, folder, deleteFault, createFault,
                              fallbackFault, failAt)
          IN  /\ createFault => ~deleteFault
              /\ fallbackFault => r.path = "raised"
              /\ failAt # 0 - 1 => r.add_called
              /\ faults + B(deleteFault) + B(createFault) + B(fallbackFault)
                        + B(failAt # 0 - 1) <= MaxFaults
              /\ faults' = faults + B(deleteFault) + B(createFault)
                                  + B(fallbackFault) + B(failAt # 0 - 1)
              /\ vector_store' = r.vs
              /\ last' = r.resp
              /\ update_pc' = IF r.exit THEN "main_exit" ELSE "main_loop"
    /\ UNCHANGED <<folder, folder_states>>
    /\ UNCHANGED chunkVars

\* one turn of main's loop on a question
MainLoopQuestion ==
    /\ update_pc = "main_loop"
    /\ \E q \in Queries, project, queryFault \in BOOLEAN, remote \in Remotes :
          LET r == MainQuestion(vector_store, q, project, queryFault, remote)
          IN  /\ queryFault => ~r.resp.hit
              /\ remote # "ok" => r.resp.remote_called
              /\ faults + B(queryFault) + B(remote # "ok") <= MaxFaults
              /\ faults' = faults + B(queryFault) + B(remote # "ok")
              /\ vector_store' = r.vs
              /\ last' = r.resp
    /\ UNCHANGED <<folder, folder_states, update_pc>>
    /\ UNCHANGED chunkVars

\* one turn of main's loop on the input 'quit'
MainLoopQuit ==
    /\ update_pc = "main_loop"
    /\ update_pc' = "main_exit"
    /\ UNCHANGED <<folder, folder_states, vector_store, last, faults>>
    /\ UNCHANGED chunkVars

Next == EditFolder \/ Ask \/ Warmup \/ UpdateClear \/ UpdateIngest

\* either program: the service's handlers (enabled from "idle") or main's
\* steps (enabled from "main_start")
NextPrograms ==
    \/ EditFolder \/ Ask \/ Warmup \/ UpdateClear \/ UpdateIngest
    \/ MainStart \/ MainLoopUpdate \/ MainLoopQuestion \/ MainLoopQuit

\* the service with a client that asks enough questions to fill the cache
NextCache == Ask \/ AskBurst \/ UpdateClear \/ UpdateIngest

ChunkerIdle ==
    /\ text = <<>> /\ chunk_size = DefaultChunkSize /\ overlap = DefaultOverlap
    /\ split = NotCalled

\* the service over folders of at most one add_documents batch
Init == InitService(PlainFolders) /\ ChunkerIdle
Spec == Init /\ [][Next]_vars

\* the service over a folder of more chunks than one batch
InitBatches == InitService(BatchFolders) /\ ChunkerIdle
SpecBatches == InitBatches /\ [][Next]_vars

\* the service or the command-line program, each with its own VectorStore
InitPrograms ==
    /\ folder_states = ProgramFolders
    /\ folder \in ProgramFolders
    /\ vector_store = NewVectorStore
    /\ update_pc \in {"idle", "main_start"}
    /\ last = NoOp
    /\ faults = 0
    /\ ChunkerIdle
SpecPrograms == InitPrograms /\ [][NextPrograms]_vars

\* the service with the cache-filling client
InitCache == InitService(CacheFolders) /\ ChunkerIdle
SpecCache == InitCache /\ [][NextCache]_vars

\* ------------------------------------------------------- service properties
Finished(op) == update_pc = "idle" /\ last.op = op

\* C1: after an Update that returns successfully the collection holds exactly
\* the chunks ingest derives from the current folder (nothing older survives),
\* the reported count is that number, and a second Update in a row over the
\* unchanged folder reports the same count.
C1_UpdateRebuilds ==
    (Finished("update") /\ last.status = 200) =>
        /\ Contents(vector_store) = Processed(folder).chunks
        /\ last.nchunks = Len(Contents(vector_store))
        /\ last.prev_update # 0 - 1 => last.nchunks = last.prev_update

\* C1 witness: a second successful Update in a row over an unchanged, non-empty
\* folder, in a store whose clear() once took the fallback path.
C1_Witness ==
    /\ Finished("update") /\ last.status = 200
    /\ last.prev_update = last.nchunks /\ last.nchunks > 0
    /\ vector_store.collection_name > 0

\* C2: whenever clear() has returned, by either path, the search cache holds no
\* entry memoized before it.
C2_CacheInvalidatedOnClear ==
    update_pc = "cleared" => vector_store.cache = <<>>

\* C3: an Ask that finds the index empty and ingests zero chunks answers 404,
\* and a 500 is answered only for other failures.
C3_EmptyIngestIs404 ==
    last.op = "ask" =>
        /\ (last.is_empty /\ last.nchunks = 0) => last.status = 404
        /\ last.status = 500 => ~(last.is_empty /\ last.nchunks = 0)

\* C6: an Ask whose search returned no chunk has the empty context, answers the
\* fixed "no relevant information" message and makes no remote call; the remote
\* call is made exactly when the context is not empty.
C6_EmptyContextShortCircuit ==
    (last.op = "ask" /\ last.searched) =>
        /\ last.context = <<>> <=> last.results.documents = <<>>
        /\ last.context = <<>> =>
              last.answer = "no_relevant_information" /\ ~last.remote_called
        /\ last.remote_called <=> last.context # <<>>

\* C6 witness: an Ask answered 200 from an empty context (its index query
\* failed), without a remote call.
C6_Witness ==
    /\ last.op = "ask" /\ last.status = 200 /\ last.searched
    /\ last.context = <<>> /\ ~last.remote_called
    /\ Contents(vector_store) # <<>>

C8_IsEmptyGatesIngest ==
    Finished("ask") =>
        /\ last.is_empty <=> (last.pre_count = 0 \/ last.count_raised)
        /\ last.is_empty => last.processed
        /\ (last.is_empty /\ last.searched) =>
              /\ last.added /\ last.nchunks > 0
              /\ Len(Contents(vector_store)) = last.pre_count + last.nchunks
        /\ ~last.is_empty =>
              ~last.processed /\ Len(Contents(vector_store)) = last.pre_count

\* C8 witness: the count query failed on a filled index, is_empty() said True,
\* and the Ask ingested the folder again before it searched.
C8_Witness ==
    /\ Finished("ask") /\ last.count_raised /\ last.pre_count > 0
    /\ last.is_empty /\ last.searched /\ last.added

\* C10: an Update whose ingest fails after clear() answers 500 and leaves the
\* collection empty (folder missing, or nothing added yet) or holding only the
\* first batches of the new chunks, never the chunks a previous successful
\* Update had put there (when that Update had put any).
C10_UpdateNotAtomic ==
    (Finished("update") /\ last.status = 500 /\ last.processed) =>
        LET c == Contents(vector_store)
            all == Processed(folder).chunks
        IN  /\ last.detail \in {"FileNotFoundError", "add_documents"}
            /\ last.detail = "FileNotFoundError" => c = <<>>
            /\ last.detail = "add_documents" =>
                  /\ c = <<>> \/ Len(c) < Len(all)
                  /\ c = SubSeq(all, 1, Len(c))
                  /\ Len(c) % BatchSize = 0
            /\ last.prev_update > 0 => Len(c) < last.prev_update

\* C10 witness: an Update failed in its second batch, after a successful Update
\* over the same folder: one batch of the new chunks is all the index holds.
C10_Witness ==
    /\ Finished("update") /\ last.status = 500
    /\ last.detail = "add_documents"
    /\ Len(Contents(vector_store)) = BatchSize
    /\ last.prev_update = BatchSize + 1

\* C10 witness of the empty outcome: the folder is missing, the index cleared.
C10_WitnessEmpty ==
    /\ Finished("update") /\ last.status = 500
    /\ last.detail = "FileNotFoundError"
    /\ Contents(vector_store) = <<>>

\* the keys and the entries memoized in a search cache
CacheKeys(cache) == {cache[i][1] : i \in 1..Len(cache)}
CacheEntries(cache) == {cache[i] : i \in 1..Len(cache)}

\* a step in which clear() ran up to self.search.cache_clear()
ClearInvalidates ==
    /\ UpdateClear \/ MainLoopUpdate
    /\ vector_store'.collection_name = vector_store.collection_name

\* C11 as stated: a memoized empty result stays memoized over every step that
\* is not a clear() reaching the cache invalidation.
C11_MemoizedUntilClear ==
    [][\A e \in CacheEntries(vector_store.cache) :
          e[2] = EmptyResult =>
              \/ e \in CacheEntries(vector_store'.cache)
              \/ ClearInvalidates]_vars

\* C11 amended: an Ask whose index query fails is answered 200 from the empty
\* result, which becomes the most recently used cache entry; an Ask for
\* memoized arguments is served that entry without querying the index; and an
\* entry, empty or not, leaves the cache only by a clear() that reaches the
\* invalidation or by eviction from a full cache, a single Ask evicting only
\* the least recently used entry and only on a miss.
C11_FailedSearchMemoized ==
    [][LET old == vector_store.cache
           new == vector_store'.cache
           dropped == {i \in 1..Len(old) : old[i] \notin CacheEntries(new)}
       IN  /\ Ask =>
                 /\ last'.query_raised =>
                       /\ last'.status = 200 /\ ~last'.hit
                       /\ last'.results = EmptyResult
                       /\ new # <<>> /\ new[Len(new)][2] = EmptyResult
                       /\ new[Len(new)][1] \notin CacheKeys(old)
                 /\ last'.searched =>
                       \A i \in 1..Len(old) :
                          old[i][1] = new[Len(new)][1] =>
                              /\ last'.hit /\ ~last'.query_raised
                              /\ last'.results = old[i][2]
                              /\ new[Len(new)] = old[i]
                 /\ dropped # {} =>
                       /\ dropped = {1} /\ Len(old) = CacheMaxSize
                       /\ last'.searched /\ ~last'.hit
           /\ dropped # {} => ClearInvalidates \/ Len(new) = CacheMaxSize]_vars

\* C11 witness: an Ask is served the memoized empty result of a query that
\* failed earlier, from the cache, while the index holds the folder's chunks.
C11_Witness ==
    /\ Finished("ask") /\ last.status = 200 /\ last.hit
    /\ last.results = EmptyResult
    /\ Contents(vector_store) # <<>>

\* the operation that wrote the record l met a failing count query, or an
\* add_documents that raised
CountOrAddFailed(l) ==
    \/ l.count_raised
    \/ l.processed /\ l.nchunks > 0 /\ ~l.added

\* C12: Ask, Warmup and main's start-up change the collection only when
\* is_empty() reported True, and leave a non-empty collection whose count
\* query succeeds as it is; clear() leaves the collection empty or as it was;
\* and every operation in which neither the count query nor add_documents
\* fails leaves the collection as it was, empty, or holding exactly the chunks
\* of the ingest it ran.  Hence, while nothing has failed, the collection's
\* size is zero or the chunk count of one ingest of the folder, never two
\* copies of the folder's chunks.
C12_IngestOnlyWhenEmpty ==
    [][LET before == Contents(vector_store)
           after == Contents(vector_store')
       IN  /\ (Ask \/ Warmup \/ MainStart) =>
                 /\ after # before => last'.is_empty
                 /\ (before # <<>> /\ ~last'.count_raised) =>
                       ~last'.is_empty /\ after = before
           /\ UpdateClear => after \in {<<>>, before}
           /\ (~UpdateClear /\ ~CountOrAddFailed(last')) =>
                 after \in {before, <<>>, Processed(folder).chunks}
           /\ faults' = 0 =>
                 Len(after) \in {0} \cup {Len(Processed(f).chunks) : f \in folder_states}]_vars

\* C12 witness: with no failure so far, an Ask found the index holding the
\* folder's chunks, skipped ingest and left the index as it was.
C12_Witness ==
    /\ Finished("ask") /\ last.status = 200 /\ ~last.is_empty
    /\ faults = 0
    /\ last.pre_count > 0
    /\ Len(Contents(vector_store)) = last.pre_count
    /\ Contents(vector_store) = Processed(folder).chunks

\* ---------------------------------------------- the chunker on its own
InitChunk ==
    /\ text \in Texts
    /\ chunk_size \in 1..MaxChunkSize
    /\ overlap \in 0..MaxOverlap
    /\ split = NotCalled
    /\ folder = "empty" /\ folder_states = {"empty"}
    /\ vector_store = NewVectorStore
    /\ update_pc = "idle" /\ last = NoOp /\ faults = 0

CallSplit ==
    /\ split.status = "not_called"
    /\ split' = SplitTextIntoChunks(text, chunk_size, overlap)
    /\ UNCHANGED <<text, chunk_size, overlap>>
    /\ UNCHANGED serviceVars

NextChunk == CallSplit

SpecChunk == InitChunk /\ [][NextChunk]_vars

\* ------------------------------------------------------- chunker properties
Called == split.status # "not_called"
NumWords == Len(WordsOf(text))
SeqToSet(s) == {s[i] : i \in 1..Len(s)}

\* chunk q starts with exactly the last o words of chunk p, and these are all
\* the words the two have in common
OverlapsBy(p, q, o) ==
    /\ Len(p) >= o
    /\ Len(q) >= o
    /\ SubSeq(q, 1, o) = SubSeq(p, Len(p) - o + 1, Len(p))
    /\ Cardinality(SeqToSet(p) \cap SeqToSet(q)) = o

IsProperSuffix(q, p) ==
    /\ Len(q) < Len(p)
    /\ q = SubSeq(p, Len(p) - Len(q) + 1, Len(p))

\* C4 as stated: for w >= 1 words and 0 <= o < c the call returns exactly
\* ceil(max(w - o, 1) / (c - o)) chunks, and a blank text returns none.
C4_CountAsStated ==
    (Called /\ overlap < chunk_size) =>
        /\ split.status = "returned"
        /\ NumWords = 0 => split.chunks = <<>>
        /\ NumWords >= 1 =>
              Len(split.chunks)
                  = CeilDiv(Max(NumWords - overlap, 1), chunk_size - overlap)

\* C4 amended: for w >= 1 words and 0 <= o < c the call returns exactly
\* ceil(w / (c - o)) chunks, one per window start 0, c-o, 2(c-o), ... below w;
\* a blank (empty or whitespace-only) text returns zero chunks.
C4_ChunkCount ==
    (Called /\ overlap < chunk_size) =>
        /\ split.status = "returned"
        /\ NumWords = 0 => split.chunks = <<>>
        /\ NumWords >= 1 =>
              Len(split.chunks) = CeilDiv(NumWords, chunk_size - overlap)

\* C4 witness: a call whose count differs from the stated formula (a trailing
\* window lying wholly inside the overlap of the one before it) has returned.
C4_Witness ==
    /\ Called /\ overlap < chunk_size /\ overlap > 0
    /\ NumWords > chunk_size
    /\ Len(split.chunks) = CeilDiv(NumWords, chunk_size - overlap)
    /\ Len(split.chunks)
           > CeilDiv(Max(NumWords - overlap, 1), chunk_size - overlap)

\* C5 as stated: with 0 <= o < c every chunk after the first overlaps the one
\* before it by exactly o words, except possibly the single final chunk when it
\* is shorter than chunk_size.
C5_OverlapAsStated ==
    (Called /\ overlap < chunk_size) =>
        \A k \in 2..Len(split.chunks) :
            \/ k = Len(split.chunks) /\ Len(split.chunks[k]) < chunk_size
            \/ OverlapsBy(split.chunks[k - 1], split.chunks[k], overlap)

\* C5 amended: with 0 <= o < c every chunk after the first that has at least o
\* words overlaps the one before it by exactly o words; the exceptions are the
\* trailing chunks of fewer than o words (possibly several, not only the final
\* one), each a proper suffix of the chunk before it.
C5_Overlap ==
    (Called /\ overlap < chunk_size) =>
        \A k \in 2..Len(split.chunks) :
            IF Len(split.chunks[k]) >= overlap
            THEN OverlapsBy(split.chunks[k - 1], split.chunks[k], overlap)
            ELSE /\ IsProperSuffix(split.chunks[k], split.chunks[k - 1])
                 /\ \A j \in k..Len(split.chunks) : Len(split.chunks[j]) < overlap

\* C5 witness: a returned chunk list holding a chunk that is not the final one
\* and has fewer than o words, next to chunks that do overlap by exactly o.
C5_Witness ==
    /\ Called /\ overlap < chunk_size
    /\ \E k \in 2..Len(split.chunks) :
          /\ k < Len(split.chunks)
          /\ Len(split.chunks[k]) < overlap
    /\ \E k \in 2..Len(split.chunks) :
          /\ overlap > 0
          /\ OverlapsBy(split.chunks[k - 1], split.chunks[k], overlap)

\* the loop walked backwards: some window start lies below the one before it
WalkedReversed == \E i \in 1..(Len(split.visited) - 1) :
                      split.visited[i + 1] < split.visited[i]

\* C9 as stated: with overlap >= chunk_size on a non-blank text the call neither
\* is rejected nor finishes; the window loop runs forever or walks backwards.
C9_StrideAsStated ==
    (Called /\ overlap >= chunk_size /\ NumWords >= 1) =>
        \/ split.status \notin {"returned", "raised"}
        \/ WalkedReversed

\* C9 amended: overlap >= chunk_size is not guarded, and the call always ends:
\* with overlap = chunk_size the stride is zero and range() raises ValueError;
\* with overlap > chunk_size the stride is negative, the loop runs no iteration
\* and the call returns an empty chunk list, the text silently dropped.
C9_Stride ==
    (Called /\ overlap >= chunk_size /\ NumWords >= 1) =>
        /\ overlap = chunk_size => split.status = "raised"
        /\ overlap > chunk_size =>
              /\ split.status = "returned"
              /\ split.chunks = <<>>
              /\ split.visited = <<>>

\* C9 witness: a call with a negative stride on a text of several words has
\* returned without a chunk.
C9_Witness ==
    /\ Called /\ overlap > chunk_size /\ NumWords >= 2
    /\ split.status = "returned" /\ split.chunks = <<>>

====
